---- MODULE Spec2Model ----
(***************************************************************************)
(* Model of the SWOT analysis engine of src/ai_analyzer.py:                *)
(*   analyze_swot_with_gemini  - batch planning, per-batch invocation,     *)
(*                               skip-on-failure, summary aggregation and  *)
(*                               de-duplication of findings                *)
(*   _analyze_single_batch     - retry loop around model.generate_content, *)
(*                               response recovery, error classification   *)
(* Strings that the code slices or normalises (topics, summaries) are      *)
(* sequences of one-character strings.  Python dicts with optional keys    *)
(* are records whose DOMAIN is the set of keys present.                    *)
(***************************************************************************)
EXTENDS Integers, Sequences, FiniteSets, TLC

\* ---------------------------------------------------------------- bounds
MaxReviews == 3
MaxBatchSize == 2
MaxItems == 2
MaxDepth == 3

\* ------------------------------------------------------ program constants
max_retries == 3
timeout_seconds == 120
SummaryBudget == 500
SummarySliceEnd == 5
ErrorExcerpt == 500

\* ------------------------------------------------------- python helpers
Min(a, b) == IF a < b THEN a ELSE b

\* seq[:n]
Take(s, n) == SubSeq(s, 1, Min(n, Len(s)))

\* dict.get(key, default)
Get(d, k, dflt) == IF k \in DOMAIN d THEN d[k] ELSE dflt

\* truthiness of a string value
Truthy(v) == v # ""

\* a or b
PyOr(a, b) == IF Truthy(a) THEN a ELSE b

\* str.lower() on one character of the modelled alphabet
LowerChar(c) == IF c = "A" THEN "a" ELSE IF c = "B" THEN "b" ELSE c

\* str.lower()
Lower(s) == [k \in 1..Len(s) |-> LowerChar(s[k])]

RECURSIVE LStrip(_)
LStrip(s) == IF s # <<>> /\ Head(s) = " " THEN LStrip(Tail(s)) ELSE s

RECURSIVE RStrip(_)
RStrip(s) == IF s # <<>> /\ s[Len(s)] = " " THEN RStrip(SubSeq(s, 1, Len(s) - 1)) ELSE s

\* str.strip()
Strip(s) == RStrip(LStrip(s))

\* sep.join(parts)
RECURSIVE Join(_, _)
Join(sep, parts) ==
    IF parts = <<>> THEN <<>>
    ELSE IF Len(parts) = 1 THEN parts[1]
    ELSE parts[1] \o sep \o Join(sep, Tail(parts))

\* 2 ** n
RECURSIVE Pow2(_)
Pow2(n) == IF n = 0 THEN 1 ELSE 2 * Pow2(n - 1)

CategorySet == {"Strengths", "Weaknesses", "Opportunities", "Threats"}

\* ------------------------------------------------- merge: de-duplication
\* item.get("topic", "").lower().strip()
NormTopic(item) == Strip(Lower(Get(item, "topic", <<>>)))

\* item.get("impact", "Low") or item.get("risk_level", "Low")
ItemImpact(item) == PyOr(Get(item, "impact", "Low"), Get(item, "risk_level", "Low"))

\* impact_order.get(v, 1)
impact_order(v) ==
    CASE v = "High" -> 3
      [] v = "Medium" -> 2
      [] v = "Low" -> 1
      [] OTHER -> 1

ShouldReplace_never(new_impact, existing_impact) == FALSE

ShouldReplace_onTie(new_impact, existing_impact) ==
    impact_order(new_impact) >= impact_order(existing_impact)

\* if impact_order.get(new_impact, 1) > impact_order.get(existing_impact, 1)
ShouldReplace(new_impact, existing_impact) ==
    impact_order(new_impact) > impact_order(existing_impact)

\* position of a key in seen_topics (an insertion-ordered dict), 0 if absent
SeenIndex(seen, key) ==
    IF \E k \in 1..Len(seen) : seen[k].key = key
    THEN CHOOSE k \in 1..Len(seen) : seen[k].key = key
    ELSE 0

SeenStep_mergeFields(seen, item) ==
    LET topic == NormTopic(item)
        at == SeenIndex(seen, topic)
        old == seen[at].item
        both == [k \in DOMAIN item \cup DOMAIN old |-> IF k \in DOMAIN item THEN item[k] ELSE old[k]]
    IN  IF topic # <<>>
        THEN IF at = 0
             THEN Append(seen, [key |-> topic, item |-> item])
             ELSE IF ShouldReplace(ItemImpact(item), ItemImpact(seen[at].item))
                  THEN [seen EXCEPT ![at] = [key |-> topic, item |-> both]]
                  ELSE seen
        ELSE seen

SeenStep_moveToEnd(seen, item) ==
    LET topic == NormTopic(item)
        at == SeenIndex(seen, topic)
    IN  IF topic # <<>>
        THEN IF at = 0
             THEN Append(seen, [key |-> topic, item |-> item])
             ELSE IF ShouldReplace(ItemImpact(item), ItemImpact(seen[at].item))
                  THEN Append(SubSeq(seen, 1, at - 1) \o SubSeq(seen, at + 1, Len(seen)),
                              [key |-> topic, item |-> item])
                  ELSE seen
        ELSE seen

\* one iteration of "for item in all_results[...][category]"
SeenStep(seen, item) ==
    LET topic == NormTopic(item)
        at == SeenIndex(seen, topic)
    IN  IF topic # <<>>
        THEN IF at = 0
             THEN Append(seen, [key |-> topic, item |-> item])
             ELSE IF ShouldReplace(ItemImpact(item), ItemImpact(seen[at].item))
                  THEN [seen EXCEPT ![at] = [key |-> topic, item |-> item]]
                  ELSE seen
        ELSE seen

RECURSIVE SeenLoop(_, _, _)
SeenLoop(items, k, seen) ==
    IF k > Len(items) THEN seen
    ELSE CHOOSE out \in {SeenLoop(items, k + 1, next) : next \in {SeenStep(seen, items[k])}} : TRUE

\* list(seen_topics.values()) after the loop over one category
DedupCategory(items) ==
    LET seen == SeenLoop(items, 1, <<>>)
    IN  [k \in 1..Len(seen) |-> seen[k].item]

\* Python's None where a string is expected: a sequence holding the one token
\* None, which no character of the model is
None == <<"None">>

\* item.get("topic", "").lower() raises AttributeError: None has no lower()
TopicRaises(item) == Get(item, "topic", <<>>) = None

\* the loop over one category raises at some item
DedupRaises(items) == \E k \in 1..Len(items) : TopicRaises(items[k])

\* for category in ["Strengths", "Weaknesses", "Opportunities", "Threats"]
CategoryOrder == <<"Strengths", "Weaknesses", "Opportunities", "Threats">>

CategoryIndex(c) == CHOOSE k \in 1..Len(CategoryOrder) : CategoryOrder[k] = c

\* ------------------------------------------ merge: executive summary
SummarySep == <<" ", "|", " ">>

\* the value stored in all_results["Executive_Summary"]
AggregateSummary(summaries) ==
    IF summaries = <<>> THEN <<>>
    ELSE IF Len(summaries) > 1
         THEN Take(summaries[1] \o <<" ">> \o
                   Join(SummarySep, SubSeq(summaries, 2, Min(SummarySliceEnd, Len(summaries)))),
                   SummaryBudget)
         ELSE summaries[1]

\* ------------------------------------------------ the generative model
\* Outcomes of one model.generate_content call that raise: the text of the
\* exception raised by the API client.
ApiErrors == {"500", "401", "402", "429"}

\* Marker substrings that the text of an error contains.
ErrorMarkers(error_str) ==
    CASE error_str = "402" -> {"402"}
      [] error_str = "401" -> {"401"}
      [] error_str = "429" -> {"429"}
      [] OTHER -> {}

\* Canned structured answers of the model for one batch; every finding
\* carries in its description the batch it was derived from.
StubResult(v, origin) ==
    IF v = 1
    THEN [SWOT_Analysis |->
            [Strengths |-> <<[topic |-> <<"a">>, description |-> origin, impact |-> "Low"]>>,
             Weaknesses |-> <<>>,
             Opportunities |-> <<[topic |-> <<"a">>, description |-> origin]>>,
             Threats |-> <<[topic |-> <<"a">>, description |-> origin, risk_level |-> "Low"]>>],
          Executive_Summary |-> <<"s", "1">>]
    ELSE [SWOT_Analysis |->
            [Strengths |-> <<[topic |-> <<"A", " ">>, description |-> origin, impact |-> "High"]>>,
             Weaknesses |-> <<[topic |-> <<" ">>, description |-> origin, impact |-> "High"]>>,
             Threats |-> <<[topic |-> <<"A">>, description |-> origin, risk_level |-> "High"]>>],
          Executive_Summary |-> <<>>]

\* 1 is a complete result; 2 is a JSON object that lacks a category key
StubVariants == {1, 2}

\* Response objects the model can return: text that denotes a result, or
\* text from which no JSON document can be recovered.
Responses == [kind : {"json"}, variant : StubVariants] \cup {[kind |-> "malformed"]}

NoResponse == [kind |-> "none"]

\* A response that arrives after the timeout is never read; one stands for all.
LateResponses == {[kind |-> "json", variant |-> 1]}

\* ----------------------------------------------------------- the state
VARIABLES
    reviews,          \* reviews_data
    batch_size,       \* batch_size
    pc,               \* position in analyze_swot_with_gemini
    my_shop_data,     \* records tagged MY_SHOP
    competitor_data,  \* records tagged COMPETITOR
    i,                \* loop offset into the current tag's records
    all_results,      \* all_results["SWOT_Analysis"]
    all_summaries,    \* all_summaries
    st_errors,        \* messages shown through st.error
    outcome,          \* what analyze_swot_with_gemini returned or raised
    batch,            \* reviews_data of the running _analyze_single_batch
    bpc,              \* position in _analyze_single_batch
    attempt,          \* attempt
    last_error,       \* last_error
    response,         \* response
    ret,              \* what _analyze_single_batch returned or raised
    calls,            \* history: generate_content calls of the running batch
    waits,            \* history: time.sleep calls of the running batch
    sent,             \* history: batches handed to _analyze_single_batch
    ok_log,           \* history: batches whose result was merged
    caller            \* app.py: where the code that started the thread stands

vars == <<reviews, batch_size, pc, my_shop_data, competitor_data, i, all_results,
          all_summaries, st_errors, outcome, batch, bpc, attempt, last_error,
          response, ret, calls, waits, sent, ok_log, caller>>

\* what the analysis is given and cannot write: its arguments, and the stack
\* of the thread that waits for it
runVars == <<reviews, batch_size, caller>>
planVars == <<my_shop_data, competitor_data>>
accVars == <<all_results, all_summaries, st_errors, ok_log>>
callVars == <<attempt, last_error, response, calls, waits>>

Sources == {"MY_SHOP", "COMPETITOR", "UNKNOWN"}

\* review lists of up to MaxReviews records; the text of record k is k
ReviewLists ==
    UNION {{[k \in 1..n |-> [source |-> f[k], review |-> k]] : f \in [1..n -> Sources]} :
           n \in 0..MaxReviews}

EmptyResults == [c \in CategorySet |-> <<>>]

NoValue == [status |-> "none"]

Init ==
    /\ reviews \in ReviewLists
    /\ batch_size \in 1..MaxBatchSize
    /\ pc = "start"
    /\ my_shop_data = <<>>
    /\ competitor_data = <<>>
    /\ i = 0
    /\ all_results = EmptyResults
    /\ all_summaries = <<>>
    /\ st_errors = <<>>
    /\ outcome = NoValue
    /\ batch = <<>>
    /\ bpc = "idle"
    /\ attempt = 0
    /\ last_error = "none"
    /\ response = NoResponse
    /\ ret = NoValue
    /\ calls = <<>>
    /\ waits = <<>>
    /\ sent = <<>>
    /\ ok_log = <<>>
    /\ caller = "joining"

\* --------------------------------------------------- _analyze_single_batch
\* full_prompt: the statistics header and the formatted records
FormatPrompt(b) ==
    [total |-> Len(b),
     my_shop_count |-> Cardinality({k \in 1..Len(b) : b[k].source = "MY_SHOP"}),
     competitor_count |-> Cardinality({k \in 1..Len(b) : b[k].source = "COMPETITOR"}),
     reviews_text |-> [k \in 1..Len(b) |-> <<b[k].source, b[k].review>>]]

\* the if/elif chain on the substrings of error_str
Classify(markers) ==
    IF "402" \in markers THEN "quota"
    ELSE IF "401" \in markers THEN "auth"
    ELSE IF "429" \in markers THEN "rate_limit"
    ELSE "generic"

\* the "except Exception" handler that turns any failure into the raised error
WrapError(error_str) ==
    [kind |-> Classify(ErrorMarkers(error_str)), detail |-> error_str, names |-> {}]

\* sanitising and recovering the response text
Recover(resp, origin) ==
    IF resp.kind = "json"
    THEN [status |-> "ok", value |-> StubResult(resp.variant, origin)]
    ELSE [status |-> "raised", error |-> WrapError("parse")]

\* entering _analyze_single_batch with one batch
StartBatch(b, tag, num) ==
    /\ batch' = b
    /\ bpc' = "invoke"
    /\ sent' = Append(sent, [tag |-> tag, num |-> num, batch |-> b])

\* the batch the running call was given
Current == sent[Len(sent)]

RetryOrRaise_sameAttempt(e) ==
    /\ last_error' = e
    /\ IF attempt < max_retries - 1
       THEN /\ waits' = Append(waits, Pow2(attempt))
            /\ attempt' = attempt
            /\ UNCHANGED <<bpc, ret>>
       ELSE /\ ret' = [status |-> "raised", error |-> WrapError(e)]
            /\ bpc' = "returned"
            /\ UNCHANGED <<waits, attempt>>

RetryOrRaise_giveUpEarly(e) ==
    /\ last_error' = e
    /\ IF attempt < max_retries - 2
       THEN /\ waits' = Append(waits, Pow2(attempt))
            /\ attempt' = attempt + 1
            /\ UNCHANGED <<bpc, ret>>
       ELSE /\ ret' = [status |-> "raised", error |-> WrapError(e)]
            /\ bpc' = "returned"
            /\ UNCHANGED <<waits, attempt>>

\* the "except Exception as e" branch of the retry loop
RetryOrRaise(e) ==
    /\ last_error' = e
    /\ IF attempt < max_retries - 1
       THEN /\ waits' = Append(waits, Pow2(attempt))
            /\ attempt' = attempt + 1
            /\ UNCHANGED <<bpc, ret>>
       ELSE /\ ret' = [status |-> "raised", error |-> WrapError(e)]
            /\ bpc' = "returned"
            /\ UNCHANGED <<waits, attempt>>

\* generate_content returns within the timeout: leave the loop and recover
GenerateReturns(resp) ==
    /\ bpc = "invoke"
    /\ calls' = Append(calls, [prompt |-> FormatPrompt(batch), outcome |-> "returned"])
    /\ response' = resp
    /\ ret' = Recover(resp, <<Current.tag, Current.num>>)
    /\ bpc' = "returned"
    /\ UNCHANGED <<attempt, last_error, waits>>
    /\ UNCHANGED <<runVars, planVars, accVars, pc, i, outcome, batch, sent>>

\* generate_content returns after more than timeout_seconds
GenerateSlow(resp, elapsed_time) ==
    /\ bpc = "invoke"
    /\ elapsed_time > timeout_seconds
    /\ calls' = Append(calls, [prompt |-> FormatPrompt(batch), outcome |-> "timeout"])
    /\ response' = resp
    /\ RetryOrRaise("timeout")
    /\ UNCHANGED <<runVars, planVars, accVars, pc, i, outcome, batch, sent>>

\* generate_content raises
GenerateRaises(e) ==
    /\ bpc = "invoke"
    /\ calls' = Append(calls, [prompt |-> FormatPrompt(batch), outcome |-> e])
    /\ RetryOrRaise(e)
    /\ UNCHANGED response
    /\ UNCHANGED <<runVars, planVars, accVars, pc, i, outcome, batch, sent>>

\* the locals of _analyze_single_batch are gone once its caller has the result
ForgetCall ==
    /\ bpc' = "idle"
    /\ batch' = <<>>
    /\ attempt' = 0
    /\ last_error' = "none"
    /\ response' = NoResponse
    /\ ret' = NoValue
    /\ calls' = <<>>
    /\ waits' = <<>>

\* ------------------------------------------------ analyze_swot_with_gemini
FilterSource(data, tag) == SelectSeq(data, LAMBDA r : r.source = tag)

Begin_strictLess ==
    /\ pc = "start"
    /\ IF Len(reviews) < batch_size
       THEN /\ pc' = "single"
            /\ StartBatch(reviews, "ALL", 1)
            /\ UNCHANGED planVars
       ELSE /\ pc' = "my_shop"
            /\ my_shop_data' = FilterSource(reviews, "MY_SHOP")
            /\ competitor_data' = FilterSource(reviews, "COMPETITOR")
            /\ UNCHANGED <<batch, bpc, sent>>
    /\ UNCHANGED <<runVars, accVars, callVars, i, outcome, ret>>

\* the branch on total_reviews <= batch_size
Begin ==
    /\ pc = "start"
    /\ IF Len(reviews) <= batch_size
       THEN /\ pc' = "single"
            /\ StartBatch(reviews, "ALL", 1)
            /\ UNCHANGED planVars
       ELSE /\ pc' = "my_shop"
            /\ my_shop_data' = FilterSource(reviews, "MY_SHOP")
            /\ competitor_data' = FilterSource(reviews, "COMPETITOR")
            /\ UNCHANGED <<batch, bpc, sent>>
    /\ UNCHANGED <<runVars, accVars, callVars, i, outcome, ret>>

\* single-batch path: the result is returned as it is
SingleReturn ==
    /\ pc = "single" /\ bpc = "returned" /\ ret.status = "ok"
    /\ outcome' = [status |-> "returned", value |-> ret.value]
    /\ pc' = "done"
    /\ ForgetCall
    /\ UNCHANGED <<runVars, planVars, accVars, i, sent>>

\* single-batch path: the exception propagates
SingleRaise ==
    /\ pc = "single" /\ bpc = "returned" /\ ret.status = "raised"
    /\ outcome' = [status |-> "raised", error |-> ret.error]
    /\ pc' = "raised"
    /\ ForgetCall
    /\ UNCHANGED <<runVars, planVars, accVars, i, sent>>

TagData(tag) == IF tag = "MY_SHOP" THEN my_shop_data ELSE competitor_data

TagPc(tag) == IF tag = "MY_SHOP" THEN "my_shop" ELSE "competitor"

\* the categories a tag's batches feed
TagCategories(tag) ==
    IF tag = "MY_SHOP" THEN {"Strengths", "Weaknesses"} ELSE {"Opportunities", "Threats"}

\* batch_num = (i // batch_size) + 1
BatchNum == (i \div batch_size) + 1

LoopNext_concurrent(tag) ==
    /\ pc = TagPc(tag)
    /\ i < Len(TagData(tag))
    /\ StartBatch(SubSeq(TagData(tag), i + 1, Min(i + batch_size, Len(TagData(tag)))),
                  tag, BatchNum)
    /\ UNCHANGED <<runVars, planVars, accVars, callVars, pc, i, outcome, ret>>

LoopNext_overlap(tag) ==
    /\ pc = TagPc(tag) /\ bpc = "idle"
    /\ i < Len(TagData(tag))
    /\ StartBatch(SubSeq(TagData(tag), i + 1, Min(i + batch_size + 1, Len(TagData(tag)))),
                  tag, BatchNum)
    /\ UNCHANGED <<runVars, planVars, accVars, callVars, pc, i, outcome, ret>>

\* one iteration of "for i in range(0, len(data), batch_size)" up to the call
LoopNext(tag) ==
    /\ pc = TagPc(tag) /\ bpc = "idle"
    /\ i < Len(TagData(tag))
    /\ StartBatch(SubSeq(TagData(tag), i + 1, Min(i + batch_size, Len(TagData(tag)))),
                  tag, BatchNum)
    /\ UNCHANGED <<runVars, planVars, accVars, callVars, pc, i, outcome, ret>>

\* the loop over a tag's records is exhausted (or the tag has no record)
LoopEnd(tag) ==
    /\ pc = TagPc(tag) /\ bpc = "idle"
    /\ i >= Len(TagData(tag))
    /\ pc' = IF tag = "MY_SHOP" THEN "competitor" ELSE "merge"
    /\ i' = 0
    /\ UNCHANGED <<runVars, planVars, accVars, callVars, outcome, ret, batch, bpc, sent>>

\* the batch succeeded: extend the tag's two categories, keep the summary
BatchMerged(tag) ==
    /\ pc = TagPc(tag) /\ bpc = "returned" /\ ret.status = "ok"
    /\ all_results' =
          [c \in CategorySet |->
              IF c \in TagCategories(tag)
              THEN all_results[c] \o Get(Get(ret.value, "SWOT_Analysis", <<>>), c, <<>>)
              ELSE all_results[c]]
    /\ all_summaries' = Append(all_summaries, Get(ret.value, "Executive_Summary", <<>>))
    /\ ok_log' = Append(ok_log, [tag |-> tag, num |-> BatchNum, result |-> ret.value])
    /\ i' = i + batch_size
    /\ ForgetCall
    /\ UNCHANGED <<runVars, planVars, st_errors, pc, outcome, sent>>

BatchSkipped_abort(tag) ==
    /\ pc = TagPc(tag) /\ bpc = "returned" /\ ret.status = "raised"
    /\ st_errors' = Append(st_errors, [kind |-> ret.error.kind, detail |-> ret.error.detail,
                                       names |-> {<<tag, BatchNum>>}])
    /\ outcome' = [status |-> "raised", error |-> ret.error]
    /\ pc' = "raised"
    /\ ForgetCall
    /\ UNCHANGED <<runVars, planVars, all_results, all_summaries, ok_log, i, sent>>

\* the batch raised: report it through st.error and continue with the next
BatchSkipped(tag) ==
    /\ pc = TagPc(tag) /\ bpc = "returned" /\ ret.status = "raised"
    /\ st_errors' = Append(st_errors, [kind |-> ret.error.kind, detail |-> ret.error.detail,
                                       names |-> {<<tag, BatchNum>>}])
    /\ i' = i + batch_size
    /\ ForgetCall
    /\ UNCHANGED <<runVars, planVars, all_results, all_summaries, ok_log, pc, outcome, sent>>

\* the de-duplication loop raises in some category
MergeFails == \E c \in CategorySet : DedupRaises(all_results[c])

Merge_dropEmpty ==
    /\ pc = "merge"
    /\ ~MergeFails
    /\ all_results' = [c \in {d \in CategorySet : all_results[d] # <<>>} |->
                          DedupCategory(all_results[c])]
    /\ outcome' = [status |-> "returned",
                   value |-> [SWOT_Analysis |-> all_results',
                              Executive_Summary |-> AggregateSummary(all_summaries)]]
    /\ pc' = "done"
    /\ UNCHANGED <<runVars, planVars, all_summaries, st_errors, ok_log, callVars,
                   i, batch, bpc, ret, sent>>

\* summary aggregation and de-duplication, then return all_results
Merge ==
    /\ pc = "merge"
    /\ ~MergeFails
    /\ all_results' = [c \in CategorySet |-> DedupCategory(all_results[c])]
    /\ outcome' = [status |-> "returned",
                   value |-> [SWOT_Analysis |-> all_results',
                              Executive_Summary |-> AggregateSummary(all_summaries)]]
    /\ pc' = "done"
    /\ UNCHANGED <<runVars, planVars, all_summaries, st_errors, ok_log, callVars,
                   i, batch, bpc, ret, sent>>

\* the de-duplication loop raises: the categories before the failing one have
\* been replaced, and the AttributeError leaves analyze_swot_with_gemini
MergeRaises ==
    /\ pc = "merge"
    /\ MergeFails
    /\ LET failing == CHOOSE k \in 1..Len(CategoryOrder) :
                          /\ DedupRaises(all_results[CategoryOrder[k]])
                          /\ \A j \in 1..(k - 1) : ~DedupRaises(all_results[CategoryOrder[j]])
       IN  all_results' = [c \in CategorySet |->
                              IF CategoryIndex(c) < failing
                              THEN DedupCategory(all_results[c])
                              ELSE all_results[c]]
    /\ outcome' = [status |-> "raised",
                   error |-> [kind |-> "AttributeError", detail |-> "topic", names |-> {}]]
    /\ pc' = "raised"
    /\ UNCHANGED <<runVars, planVars, all_summaries, st_errors, ok_log, callVars,
                   i, batch, bpc, ret, sent>>

Tags == {"MY_SHOP", "COMPETITOR"}

Next ==
    \/ Begin
    \/ \E resp \in Responses : GenerateReturns(resp)
    \/ \E resp \in LateResponses : GenerateSlow(resp, timeout_seconds + 1)
    \/ \E e \in ApiErrors : GenerateRaises(e)
    \/ SingleReturn
    \/ SingleRaise
    \/ \E tag \in Tags : LoopNext(tag)
    \/ \E tag \in Tags : LoopEnd(tag)
    \/ \E tag \in Tags : BatchMerged(tag)
    \/ \E tag \in Tags : BatchSkipped(tag)
    \/ Merge

Spec == Init /\ [][Next]_vars

\* ------------------------------------------ the run and its model calls
\* The retry loop treats every exception alike and never reads what a call
\* returned, so for counting calls one answer of each kind stands for all:
\* a result, a text without JSON, a late answer, and an exception of either
\* class of ApiErrors.
CallResponses == {[kind |-> "json", variant |-> 1], [kind |-> "malformed"]}

CallErrors == {"500", "401"}

NextCalls ==
    \/ Begin
    \/ \E resp \in CallResponses : GenerateReturns(resp)
    \/ \E resp \in LateResponses : GenerateSlow(resp, timeout_seconds + 1)
    \/ \E e \in CallErrors : GenerateRaises(e)
    \/ SingleReturn
    \/ SingleRaise
    \/ \E tag \in Tags : LoopNext(tag)
    \/ \E tag \in Tags : LoopEnd(tag)
    \/ \E tag \in Tags : BatchMerged(tag)
    \/ \E tag \in Tags : BatchSkipped(tag)
    \/ Merge

SpecCalls == Init /\ [][NextCalls]_vars

\* ------------------------------------------------------- app.py: the caller
\* The analysis runs in a daemon thread; the caller waits in thread.join for
\* at most join_timeout seconds and then looks at what the thread left.
join_timeout == 300

\* the thread's target has not returned yet
ThreadAlive == pc \notin {"done", "raised"}

\* thread.join(timeout=300) returns while the thread is alive
JoinTimesOut ==
    /\ caller = "joining"
    /\ ThreadAlive
    /\ caller' = "TimeoutError"
    /\ UNCHANGED <<reviews, batch_size, planVars, accVars, callVars, pc, i, outcome,
                   batch, bpc, ret, sent>>

\* thread.join returns because the thread ended: raise what it raised, or go
\* on to validate_swot_result with what it returned
JoinReturns ==
    /\ caller = "joining"
    /\ ~ThreadAlive
    /\ caller' = IF outcome.status = "raised" THEN "Exception" ELSE "validating"
    /\ UNCHANGED <<reviews, batch_size, planVars, accVars, callVars, pc, i, outcome,
                   batch, bpc, ret, sent>>

\* the analysis thread and the thread that waits for it
NextCaller ==
    \/ Next
    \/ JoinTimesOut
    \/ JoinReturns

SpecCaller == Init /\ [][NextCaller]_vars

\* ------------------------------------------ a model call that stays pending
\* generate_content is a blocking call without a timeout argument: the
\* elapsed time is looked at only on the line after it.  Here the call can
\* stay pending while the clock passes timeout_seconds.

\* time.time() - start_time passes timeout_seconds inside generate_content
TimeoutElapses ==
    /\ bpc = "invoke"
    /\ bpc' = "overdue"
    /\ UNCHANGED <<runVars, planVars, accVars, callVars, pc, i, outcome, batch, ret, sent>>

\* the "except Exception as e" branch, reached from the overdue call
OverdueRetryOrRaise(e) ==
    /\ last_error' = e
    /\ IF attempt < max_retries - 1
       THEN /\ waits' = Append(waits, Pow2(attempt))
            /\ attempt' = attempt + 1
            /\ bpc' = "invoke"
            /\ UNCHANGED ret
       ELSE /\ ret' = [status |-> "raised", error |-> WrapError(e)]
            /\ bpc' = "returned"
            /\ UNCHANGED <<waits, attempt>>

\* the overdue call returns after all: elapsed_time > timeout_seconds
OverdueReturns(resp) ==
    /\ bpc = "overdue"
    /\ calls' = Append(calls, [prompt |-> FormatPrompt(batch), outcome |-> "timeout"])
    /\ response' = resp
    /\ OverdueRetryOrRaise("timeout")
    /\ UNCHANGED <<runVars, planVars, accVars, pc, i, outcome, batch, sent>>

\* the overdue call raises after all
OverdueRaises(e) ==
    /\ bpc = "overdue"
    /\ calls' = Append(calls, [prompt |-> FormatPrompt(batch), outcome |-> e])
    /\ OverdueRetryOrRaise(e)
    /\ UNCHANGED response
    /\ UNCHANGED <<runVars, planVars, accVars, pc, i, outcome, batch, sent>>

\* the steps the analysis thread takes by itself, without the model's answer
ProgramStep ==
    \/ Begin
    \/ SingleReturn
    \/ SingleRaise
    \/ \E tag \in Tags : LoopNext(tag)
    \/ \E tag \in Tags : LoopEnd(tag)
    \/ \E tag \in Tags : BatchMerged(tag)
    \/ \E tag \in Tags : BatchSkipped(tag)
    \/ Merge

NextPending ==
    \/ Next
    \/ TimeoutElapses
    \/ \E resp \in LateResponses : OverdueReturns(resp)
    \/ \E e \in ApiErrors : OverdueRaises(e)

\* The thread is scheduled: a step it can take by itself is taken.  Nothing
\* makes the model answer.
SpecPending == Init /\ [][NextPending]_vars /\ WF_vars(ProgramStep)

\* ---------------------------------------------------- validate_swot_result
\* every modelled result is a dict and every category value it holds a list
validate_swot_result(result) ==
    /\ "SWOT_Analysis" \in DOMAIN result
    /\ \A key \in CategorySet : key \in DOMAIN Get(result, "SWOT_Analysis", <<>>)

\* ------------------------------------------------------ response text
\* A response text is a sequence of characters.  Characters that need a
\* name: the double quote, the backslash, the backquote, line feed, tab,
\* carriage return, BEL (0x07) and DEL (0x7f).  The texts of the model hold
\* no other control character, no digit but 1 outside a string literal and
\* none of the letters of true, false, null.
\*
\* An intermediate text or parse that is read more than once is bound by
\* "x \in {e}", so that it is computed once, as the assignment in the code.
QUO == "QUO"
BSL == "BSL"
BQ == "BQ"
LF == "LF"
TAB == "TAB"
CR == "CR"
BEL == "BEL"
DEL == "DEL"

\* characters below 0x20, which json.loads rejects inside a string
LowControls == {LF, TAB, CR, BEL}

\* whitespace of str.strip() and of the JSON scanner
Whitespace == {" ", LF, TAB, CR}

\* first position from p on that holds no whitespace
RECURSIVE SkipWs(_, _)
SkipWs(t, p) == IF p <= Len(t) /\ t[p] \in Whitespace THEN SkipWs(t, p + 1) ELSE p

\* last position up to p that holds no whitespace
RECURSIVE SkipWsBack(_, _)
SkipWsBack(t, p) == IF p >= 1 /\ t[p] \in Whitespace THEN SkipWsBack(t, p - 1) ELSE p

\* response_text.strip()
StripText(t) == SubSeq(t, SkipWs(t, 1), SkipWsBack(t, Len(t)))

\* t.startswith(prefix)
StartsWith(t, prefix) == Len(t) >= Len(prefix) /\ SubSeq(t, 1, Len(prefix)) = prefix

\* t.endswith(suffix)
EndsWith(t, suffix) ==
    Len(t) >= Len(suffix) /\ SubSeq(t, Len(t) - Len(suffix) + 1, Len(t)) = suffix

\* t[n:]
Drop(t, n) == SubSeq(t, n + 1, Len(t))

Fence == <<BQ, BQ, BQ>>
FenceJson == Fence \o <<"j", "s", "o", "n">>

\* if t.startswith("```json"): t = t[7:]
DropFenceJson(t) == IF StartsWith(t, FenceJson) THEN Drop(t, 7) ELSE t

\* if t.startswith("```"): t = t[3:]
DropFence(t) == IF StartsWith(t, Fence) THEN Drop(t, 3) ELSE t

\* if t.endswith("```"): t = t[:-3]
DropFenceEnd(t) == IF EndsWith(t, Fence) THEN SubSeq(t, 1, Len(t) - 3) ELSE t

\* removal of the markdown code fence and the second strip()
StripFences(t) ==
    CHOOSE out \in {StripText(c) : c \in {DropFenceEnd(b) : b \in
                       {DropFence(a) : a \in {DropFenceJson(t)}}}} : TRUE

\* '\\n' in t or '\\t' in t or '\\r' in t
HasLiteralEscape(t) ==
    \E k \in 1..(Len(t) - 1) : t[k] = BSL /\ t[k + 1] \in {"n", "t", "r"}

\* the character a backslash escape denotes for codecs' unicode_escape;
\* a backslash before any other character of the model stays as it is
EscapeChar(c) ==
    CASE c = "n" -> <<LF>>
      [] c = "t" -> <<TAB>>
      [] c = "r" -> <<CR>>
      [] c = "a" -> <<BEL>>
      [] c = QUO -> <<QUO>>
      [] c = BSL -> <<BSL>>
      [] OTHER -> <<BSL, c>>

\* codecs.decode(t, 'unicode_escape') raises on a backslash that ends the text
RECURSIVE DecodeFailsFrom(_, _)
DecodeFailsFrom(t, k) ==
    IF k > Len(t) THEN FALSE
    ELSE IF t[k] = BSL
         THEN IF k = Len(t) THEN TRUE ELSE DecodeFailsFrom(t, k + 2)
         ELSE DecodeFailsFrom(t, k + 1)

DecodeFails(t) == DecodeFailsFrom(t, 1)

\* codecs.decode(t, 'unicode_escape')
RECURSIVE UnicodeEscapeFrom(_, _)
UnicodeEscapeFrom(t, k) ==
    IF k > Len(t) THEN <<>>
    ELSE IF t[k] = BSL /\ k < Len(t)
         THEN EscapeChar(t[k + 1]) \o UnicodeEscapeFrom(t, k + 2)
         ELSE <<t[k]>> \o UnicodeEscapeFrom(t, k + 1)

UnicodeEscape(t) == UnicodeEscapeFrom(t, 1)

\* t.replace('\\n', '\n').replace('\\t', '\t').replace('\\r', '\r')
RECURSIVE ReplaceEscapesFrom(_, _)
ReplaceEscapesFrom(t, k) ==
    IF k > Len(t) THEN <<>>
    ELSE IF k < Len(t) /\ t[k] = BSL /\ t[k + 1] \in {"n", "t", "r"}
         THEN EscapeChar(t[k + 1]) \o ReplaceEscapesFrom(t, k + 2)
         ELSE <<t[k]>> \o ReplaceEscapesFrom(t, k + 1)

ReplaceEscapes(t) == ReplaceEscapesFrom(t, 1)

\* the decoding of literal escape sequences
DecodeEscapes(t) ==
    IF HasLiteralEscape(t)
    THEN IF DecodeFails(t) THEN ReplaceEscapes(t) ELSE UnicodeEscape(t)
    ELSE t

\* re.sub(r'[\x00-\x08\x0b-\x0c\x0e-\x1f\x7f-\x9f]', ' ', t)
ReplaceControls(t) == [k \in 1..Len(t) |-> IF t[k] \in {BEL, DEL} THEN " " ELSE t[k]]

\* the text handed to the first json.loads
Sanitize(raw) ==
    CHOOSE out \in {ReplaceControls(d) : d \in {DecodeEscapes(f) : f \in
                       {StripFences(s) : s \in {StripText(raw)}}}} : TRUE

\* ------------------------------------------------------------ json.loads
\* Parsed values: [t |-> "num", digits], [t |-> "str", s], [t |-> "arr", items],
\* [t |-> "obj", members] with members a sequence of [k, v].
NoParse == [ok |-> FALSE]

\* the characters of a string literal whose opening quote is before p
RECURSIVE ScanString(_, _, _)
ScanString(t, p, acc) ==
    IF p > Len(t) THEN NoParse
    ELSE IF t[p] = QUO THEN [ok |-> TRUE, v |-> [t |-> "str", s |-> acc], p |-> p + 1]
    ELSE IF t[p] = BSL
         THEN IF p + 1 <= Len(t) /\ t[p + 1] \in {"n", "t", "r", QUO, BSL}
              THEN ScanString(t, p + 2, acc \o EscapeChar(t[p + 1]))
              ELSE NoParse
    ELSE IF t[p] \in LowControls THEN NoParse
    ELSE ScanString(t, p + 1, Append(acc, t[p]))

RECURSIVE ScanDigits(_, _)
ScanDigits(t, p) == IF p <= Len(t) /\ t[p] = "1" THEN ScanDigits(t, p + 1) ELSE p

RECURSIVE ParseAt(_, _)
RECURSIVE ParseItems(_, _, _)
RECURSIVE ParseMembers(_, _, _)

\* the value that starts at position p
ParseAt(t, p) ==
    IF p > Len(t) THEN NoParse
    ELSE IF t[p] = QUO THEN ScanString(t, p + 1, <<>>)
    ELSE IF t[p] = "1"
         THEN [ok |-> TRUE, v |-> [t |-> "num", digits |-> ScanDigits(t, p) - p],
               p |-> ScanDigits(t, p)]
    ELSE IF t[p] = "["
         THEN IF SkipWs(t, p + 1) <= Len(t) /\ t[SkipWs(t, p + 1)] = "]"
              THEN [ok |-> TRUE, v |-> [t |-> "arr", items |-> <<>>],
                    p |-> SkipWs(t, p + 1) + 1]
              ELSE ParseItems(t, p + 1, <<>>)
    ELSE IF t[p] = "{"
         THEN IF SkipWs(t, p + 1) <= Len(t) /\ t[SkipWs(t, p + 1)] = "}"
              THEN [ok |-> TRUE, v |-> [t |-> "obj", members |-> <<>>],
                    p |-> SkipWs(t, p + 1) + 1]
              ELSE ParseMembers(t, p + 1, <<>>)
    ELSE NoParse

\* the value that starts at the first non-blank position from p on
ParseValue(t, p) == ParseAt(t, SkipWs(t, p))

\* after an array item: a comma and more items, or the bracket
AfterItem(t, item, acc) ==
    LET q == SkipWs(t, item.p)
    IN  IF q > Len(t) THEN NoParse
        ELSE IF t[q] = "," THEN ParseItems(t, q + 1, Append(acc, item.v))
        ELSE IF t[q] = "]"
             THEN [ok |-> TRUE, v |-> [t |-> "arr", items |-> Append(acc, item.v)], p |-> q + 1]
        ELSE NoParse

\* the rest of an array, from an item on
ParseItems(t, p, acc) ==
    CHOOSE r \in {IF item.ok THEN AfterItem(t, item, acc) ELSE NoParse :
                  item \in {ParseValue(t, p)}} : TRUE

\* after a member's value: a comma and more members, or the brace
AfterMember(t, key, val, acc) ==
    LET q == SkipWs(t, val.p)
        members == Append(acc, [k |-> key.v.s, v |-> val.v])
    IN  IF q > Len(t) THEN NoParse
        ELSE IF t[q] = "," THEN ParseMembers(t, q + 1, members)
        ELSE IF t[q] = "}"
             THEN [ok |-> TRUE, v |-> [t |-> "obj", members |-> members], p |-> q + 1]
        ELSE NoParse

\* after a member's key: the colon and the value
AfterKey(t, key, acc) ==
    LET c == SkipWs(t, key.p)
    IN  IF c <= Len(t) /\ t[c] = ":"
        THEN CHOOSE r \in {IF val.ok THEN AfterMember(t, key, val, acc) ELSE NoParse :
                           val \in {ParseValue(t, c + 1)}} : TRUE
        ELSE NoParse

\* the rest of an object, from a key on
ParseMembers(t, p0, acc) ==
    LET p == SkipWs(t, p0)
    IN  IF p <= Len(t) /\ t[p] = QUO
        THEN CHOOSE r \in {IF key.ok THEN AfterKey(t, key, acc) ELSE NoParse :
                           key \in {ScanString(t, p + 1, <<>>)}} : TRUE
        ELSE NoParse

\* one value, blanks around it, nothing else
WholeText(t, r) ==
    IF r.ok /\ SkipWs(t, r.p) > Len(t) THEN [ok |-> TRUE, v |-> r.v] ELSE NoParse

ParseText(t) == CHOOSE out \in {WholeText(t, r) : r \in {ParseValue(t, 1)}} : TRUE

\* json.loads(text)
JsonLoads(text) == CHOOSE out \in {ParseText(t) : t \in {text}} : TRUE

\* ------------------------------------------------- the recovery ladder
SetMin(S) == CHOOSE x \in S : \A y \in S : x <= y

SetMax(S) == CHOOSE x \in S : \A y \in S : x >= y

Positions(t, c) == {k \in 1..Len(t) : t[k] = c}

\* t.count(c)
Count(t, c) == Cardinality(Positions(t, c))

\* c repeated n times; nothing for n <= 0, as "for _ in range(n)"
Repeat(c, n) == [k \in 1..n |-> c]

\* re.search(r'\{[\s\S]*\}', t): from the first "{" to the last "}"
RegexObject(t) ==
    IF /\ Positions(t, "{") # {} /\ Positions(t, "}") # {}
       /\ SetMin(Positions(t, "{")) < SetMax(Positions(t, "}"))
    THEN [ok |-> TRUE, text |-> SubSeq(t, SetMin(Positions(t, "{")), SetMax(Positions(t, "}")))]
    ELSE [ok |-> FALSE]

\* the comma at k is followed by blanks and a closing brace or bracket
IsTrailingComma(t, k) ==
    /\ t[k] = ","
    /\ SkipWs(t, k + 1) <= Len(t)
    /\ t[SkipWs(t, k + 1)] \in {"}", "]"}

\* Fix 1: re.sub(r',(\s*[}\]])', r'\1', t)
RECURSIVE TrailingCommasFrom(_, _)
TrailingCommasFrom(t, k) ==
    IF k > Len(t) THEN <<>>
    ELSE (IF IsTrailingComma(t, k) THEN <<>> ELSE <<t[k]>>) \o TrailingCommasFrom(t, k + 1)

RemoveTrailingCommas(t) == TrailingCommasFrom(t, 1)

\* t.rfind(','), counted from 0; -1 when there is none
RFindComma(t) == IF Positions(t, ",") = {} THEN -1 ELSE SetMax(Positions(t, ",")) - 1

\* Fix 2 applies when an opener outnumbers its closer
Fix2Applies(t) == Count(t, "{") > Count(t, "}") \/ Count(t, "[") > Count(t, "]")

\* Fix 2: cut at the last comma, close the arrays, then the objects
Fix2Text(t) ==
    (IF RFindComma(t) > 0 THEN SubSeq(t, 1, RFindComma(t)) ELSE t)
        \o Repeat("]", Count(t, "[") - Count(t, "]"))
        \o Repeat("}", Count(t, "{") - Count(t, "}"))

\* what the scan leaves behind: the two counts and last_valid_pos
ScanState(brace_count, bracket_count, last_valid_pos) ==
    [brace_count |-> brace_count, bracket_count |-> bracket_count,
     last_valid_pos |-> last_valid_pos]

\* Fix 3: the loop "for i, char in enumerate(response_text)", k = i + 1
RECURSIVE BraceScan(_, _, _, _, _, _)
BraceScan(t, k, brace_count, bracket_count, in_string, escape_next) ==
    IF k > Len(t) THEN ScanState(brace_count, bracket_count, Len(t))
    ELSE IF escape_next
         THEN BraceScan(t, k + 1, brace_count, bracket_count, in_string, FALSE)
    ELSE IF t[k] = BSL
         THEN BraceScan(t, k + 1, brace_count, bracket_count, in_string, TRUE)
    ELSE IF t[k] = QUO
         THEN BraceScan(t, k + 1, brace_count, bracket_count, ~in_string, FALSE)
    ELSE IF in_string
         THEN BraceScan(t, k + 1, brace_count, bracket_count, in_string, FALSE)
    ELSE IF t[k] = "{"
         THEN BraceScan(t, k + 1, brace_count + 1, bracket_count, in_string, FALSE)
    ELSE IF t[k] = "}"
         THEN IF brace_count - 1 = 0 /\ bracket_count = 0
              THEN ScanState(0, 0, k)
              ELSE BraceScan(t, k + 1, brace_count - 1, bracket_count, in_string, FALSE)
    ELSE IF t[k] = "["
         THEN BraceScan(t, k + 1, brace_count, bracket_count + 1, in_string, FALSE)
    ELSE IF t[k] = "]"
         THEN BraceScan(t, k + 1, brace_count, bracket_count - 1, in_string, FALSE)
    ELSE BraceScan(t, k + 1, brace_count, bracket_count, in_string, FALSE)

\* Fix 3 closes what its scan found open
Fix3Applies(t, st) ==
    st.last_valid_pos < Len(t) \/ st.brace_count > 0 \/ st.bracket_count > 0

Fix3Text(t, st) ==
    (IF st.last_valid_pos < Len(t) THEN SubSeq(t, 1, st.last_valid_pos) ELSE t)
        \o Repeat("]", st.bracket_count)
        \o Repeat("}", st.brace_count)

\* a strategy parsed the text; fix2 is what Fix 2 had parsed before, if it ran
Parsed(r, step, fix2) == [status |-> "ok", value |-> r.v, step |-> step, fix2 |-> fix2]

\* response_text[:500], the excerpt of the text a ValueError message quotes
Excerpt(t) == Take(t, ErrorExcerpt)

\* ValueError raised by the ladder; its message quotes the text it gave up on
Unparsed(message, t, fix2) ==
    [status |-> "raised", message |-> message, text |-> Excerpt(t), fix2 |-> fix2]

\* the end of the ladder: Fix 3 where it applies, else the text after Fix 1
AfterScan(t, st, fix2) ==
    IF Fix3Applies(t, st)
    THEN CHOOSE out \in
            {IF fix3.ok THEN Parsed(fix3, "fix3", fix2)
             ELSE IF again.ok THEN Parsed(again, "fix1", fix2)
             ELSE Unparsed("parse_failed_after_fixes", t, fix2) :
             fix3 \in {JsonLoads(Fix3Text(t, st))}, again \in {JsonLoads(t)}} : TRUE
    ELSE CHOOSE out \in
            {IF again.ok THEN Parsed(again, "fix1", fix2)
             ELSE Unparsed("parse_failed", t, fix2) :
             again \in {JsonLoads(t)}} : TRUE

\* Fix 2 and Fix 3 on the text after Fix 1; what Fix 2 parsed is replaced by
\* the result of the steps after it, or lost when they raise
AfterFix1(t) ==
    CHOOSE out \in
        {AfterScan(t, st, fix2) :
         fix2 \in {IF Fix2Applies(t) THEN JsonLoads(Fix2Text(t)) ELSE NoParse},
         st \in {BraceScan(t, 1, 0, 0, FALSE, FALSE)}} : TRUE

\* what follows the failure of the extracted text: Fix 1, Fix 2, Fix 3
Fixes(extracted) ==
    CHOOSE out \in {AfterFix1(t) : t \in {RemoveTrailingCommas(extracted)}} : TRUE

\* the extracted object parses, or the fixes follow
AfterExtract(extracted) ==
    CHOOSE out \in {IF r.ok THEN Parsed(r, "extract", NoParse) ELSE Fixes(extracted) :
                    r \in {JsonLoads(extracted)}} : TRUE

\* the try/except ladder around json.loads
Ladder(t) ==
    CHOOSE out \in
        {IF direct.ok THEN Parsed(direct, "direct", NoParse)
         ELSE IF ~match.ok THEN Unparsed("no_json_found", t, NoParse)
         ELSE AfterExtract(match.text) :
         direct \in {JsonLoads(t)}, match \in {RegexObject(t)}} : TRUE

\* t holds the characters of sub in a row
Contains(t, sub) ==
    \E k \in 0..(Len(t) - Len(sub)) : SubSeq(t, k + 1, k + Len(sub)) = sub

\* the status codes the handler looks for, as characters
MarkerChars(m) ==
    CASE m = "402" -> <<"4", "0", "2">>
      [] m = "401" -> <<"4", "0", "1">>
      [] m = "429" -> <<"4", "2", "9">>

\* the markers str(e) holds when e is a ValueError of the ladder: those of the
\* quoted text (the positions json reports stay below 400 for these texts)
TextMarkers(t) == {m \in {"402", "401", "429"} : Contains(t, MarkerChars(m))}

\* the "except Exception" handler on a ValueError of the ladder
WrapTextError(message, t) ==
    [kind |-> Classify(TextMarkers(t)), detail |-> message, names |-> {}]

\* the outcome of _analyze_single_batch for the recovered text
Outcome(r) ==
    IF r.status = "ok" THEN r
    ELSE [status |-> "raised", error |-> WrapTextError(r.message, r.text),
          message |-> r.message, fix2 |-> r.fix2]

\* sanitising and recovering a response given as text
RecoverText(raw) ==
    CHOOSE out \in {Outcome(r) : r \in {Ladder(t) : t \in {Sanitize(raw)}}} : TRUE

\* --------------------------------------- the recovery of a response alone
\* JSON documents the model can be asked for: the nesting of objects and
\* arrays of the output schema, with short keys and values.
Num == [t |-> "num", digits |-> 1]

Str(chars) == [t |-> "str", s |-> chars]

Arr(items) == [t |-> "arr", items |-> items]

Obj(members) == [t |-> "obj", members |-> members]

\* string values: plain, with a line break, with a quote, with a DEL, digits
StringValues == {<<"a">>, <<"a", LF>>, <<QUO>>, <<"a", DEL>>, <<"4", "0", "2">>}

Leaves == {Num, Arr(<<>>), Obj(<<>>)} \cup {Str(chars) : chars \in StringValues}

\* containers around the values of S, alone or after a sibling
Wrap(S) ==
    {Arr(<<x>>) : x \in S} \cup {Arr(<<Num, x>>) : x \in S}
    \cup {Obj(<<[k |-> <<"a">>, v |-> x]>>) : x \in S}
    \cup {Obj(<<[k |-> <<"a">>, v |-> Num], [k |-> <<"b">>, v |-> x]>>) : x \in S}

RECURSIVE ValuesOfDepth(_)
ValuesOfDepth(d) ==
    IF d = 0 THEN Leaves ELSE ValuesOfDepth(d - 1) \cup Wrap(ValuesOfDepth(d - 1))

JsonValues == ValuesOfDepth(MaxDepth)

\* a character of a string value as a JSON string literal writes it
EscapeFor(c) ==
    CASE c = LF -> <<BSL, "n">>
      [] c = QUO -> <<BSL, QUO>>
      [] c = BSL -> <<BSL, BSL>>
      [] OTHER -> <<c>>

RECURSIVE DumpsChars(_)
DumpsChars(chars) ==
    IF chars = <<>> THEN <<>> ELSE EscapeFor(Head(chars)) \o DumpsChars(Tail(chars))

DumpsString(chars) == <<QUO>> \o DumpsChars(chars) \o <<QUO>>

\* the JSON text of a value
RECURSIVE Dumps(_)
RECURSIVE DumpsItems(_)
RECURSIVE DumpsMembers(_)
Dumps(v) ==
    CASE v.t = "num" -> Repeat("1", v.digits)
      [] v.t = "str" -> DumpsString(v.s)
      [] v.t = "arr" -> <<"[">> \o DumpsItems(v.items) \o <<"]">>
      [] v.t = "obj" -> <<"{">> \o DumpsMembers(v.members) \o <<"}">>

DumpsItems(items) ==
    IF items = <<>> THEN <<>>
    ELSE Dumps(Head(items)) \o
         (IF Len(items) > 1 THEN <<",", " ">> \o DumpsItems(Tail(items)) ELSE <<>>)

DumpsMembers(members) ==
    IF members = <<>> THEN <<>>
    ELSE DumpsString(Head(members).k) \o <<":", " ">> \o Dumps(Head(members).v) \o
         (IF Len(members) > 1 THEN <<",", " ">> \o DumpsMembers(Tail(members)) ELSE <<>>)

\* the number of closing braces and brackets the first k characters end with
RECURSIVE TrailingClosers(_, _)
TrailingClosers(t, k) ==
    IF k >= 1 /\ t[k] \in {"}", "]"} THEN 1 + TrailingClosers(t, k - 1) ELSE 0

\* a text cut inside its closing braces and brackets, after a complete value
TruncationsOf(t) ==
    {SubSeq(t, 1, Len(t) - j) : j \in {j \in 1..TrailingClosers(t, Len(t)) :
                                        t[Len(t) - j] \notin {"{", "["}}}

Truncations(text) == UNION {TruncationsOf(t) : t \in {text}}

\* a text with a comma before its last closing brace
WithTrailingComma(t) == SubSeq(t, 1, Len(t) - 1) \o <<",", LF, "}">>

TextResponse(text, denotes, form) ==
    [kind |-> "text", text |-> text, denotes |-> denotes, form |-> form]

\* Response texts: a document as it is, inside a code fence, inside prose,
\* with a trailing comma, or truncated; each with the document it stands for.
TextResponses ==
    {TextResponse(<<LF>> \o Dumps(v) \o <<" ">>, v, "valid") : v \in JsonValues}
    \cup {TextResponse(FenceJson \o <<LF>> \o Dumps(v) \o <<LF>> \o Fence, v, "fenced") :
          v \in JsonValues}
    \cup {TextResponse(<<"a", ":", " ">> \o Dumps(v) \o <<" ", "a">>, v, "prose") :
          v \in {w \in JsonValues : w.t = "obj"}}
    \cup {TextResponse(WithTrailingComma(Dumps(v)), v, "trailing_comma") :
          v \in {w \in JsonValues : w.t = "obj" /\ w.members # <<>>}}
    \cup UNION {{TextResponse(t, v, "truncated") : t \in Truncations(Dumps(v))} :
                v \in JsonValues}

\* one record, one batch: _analyze_single_batch waits for the model's answer
InitRecover ==
    /\ reviews = <<[source |-> "MY_SHOP", review |-> 1]>>
    /\ batch_size = 1
    /\ pc = "single"
    /\ my_shop_data = <<>>
    /\ competitor_data = <<>>
    /\ i = 0
    /\ all_results = EmptyResults
    /\ all_summaries = <<>>
    /\ st_errors = <<>>
    /\ outcome = NoValue
    /\ batch = reviews
    /\ bpc = "invoke"
    /\ attempt = 0
    /\ last_error = "none"
    /\ response = NoResponse
    /\ ret = NoValue
    /\ calls = <<>>
    /\ waits = <<>>
    /\ sent = <<[tag |-> "ALL", num |-> 1, batch |-> reviews]>>
    /\ ok_log = <<>>
    /\ caller = "joining"

\* generate_content returns a text within the timeout: sanitise and recover
GenerateReturnsText(resp) ==
    /\ bpc = "invoke"
    /\ calls' = Append(calls, [prompt |-> FormatPrompt(batch), outcome |-> "returned"])
    /\ response' = resp
    /\ ret' = RecoverText(resp.text)
    /\ bpc' = "returned"
    /\ UNCHANGED <<attempt, last_error, waits>>
    /\ UNCHANGED <<runVars, planVars, accVars, pc, i, outcome, batch, sent>>

NextRecover ==
    \/ \E resp \in TextResponses : GenerateReturnsText(resp)
    \/ SingleReturn
    \/ SingleRaise

SpecRecover == InitRecover /\ [][NextRecover]_vars

\* ------------------------------------ the batch loops on any JSON value
\* json.loads returns whatever the text denotes: the code that follows the
\* call in the two loops reads it with dict.get and list.extend.

\* the characters of a key the code reads
KeyChars(name) ==
    CASE name = "SWOT_Analysis" -> <<"S", "W", "O", "T", "_", "A", "n", "a", "l", "y", "s", "i", "s">>
      [] name = "Executive_Summary" -> <<"E", "x", "e", "c", "u", "t", "i", "v", "e", "_", "S", "u", "m", "m", "a", "r", "y">>
      [] name = "Strengths" -> <<"S", "t", "r", "e", "n", "g", "t", "h", "s">>
      [] name = "Weaknesses" -> <<"W", "e", "a", "k", "n", "e", "s", "s", "e", "s">>
      [] name = "Opportunities" -> <<"O", "p", "p", "o", "r", "t", "u", "n", "i", "t", "i", "e", "s">>
      [] name = "Threats" -> <<"T", "h", "r", "e", "a", "t", "s">>
      [] name = "topic" -> <<"t", "o", "p", "i", "c">>
      [] name = "description" -> <<"d", "e", "s", "c", "r", "i", "p", "t", "i", "o", "n">>
      [] name = "impact" -> <<"i", "m", "p", "a", "c", "t">>
      [] name = "risk_level" -> <<"r", "i", "s", "k", "_", "l", "e", "v", "e", "l">>

IsDict(v) == v.t = "obj"

\* d.get(name, dflt) on a parsed object; the last member of a repeated key counts
DictGet(d, name, dflt) ==
    LET at == {j \in 1..Len(d.members) : d.members[j].k = KeyChars(name)}
    IN  IF at = {} THEN dflt ELSE d.members[SetMax(at)].v

FindingKeys == {"topic", "description", "impact", "risk_level"}

\* a parsed finding as the dict the merge reads; its values are strings
PlainFinding(item) ==
    [name \in {n \in FindingKeys : \E j \in 1..Len(item.members) : item.members[j].k = KeyChars(n)}
        |-> DictGet(item, name, Str(<<>>)).s]

\* batch_result.get("SWOT_Analysis", {}) where batch_result is a dict
SwotOf(v) == DictGet(v, "SWOT_Analysis", Obj(<<>>))

\* batch_result.get("SWOT_Analysis", {}).get(category, []) where both are dicts
CategoryOf(v, c) == DictGet(SwotOf(v), c, Arr(<<>>))

\* the statement that extends category c raises: AttributeError when get is
\* called on a value that is not a dict, TypeError when extend is given a number
ExtendRaises(v, c) ==
    IF ~IsDict(v) THEN TRUE
    ELSE IF ~IsDict(SwotOf(v)) THEN TRUE
    ELSE CategoryOf(v, c).t = "num"

\* what all_results[category].extend(...) appends: the findings of an array
Extension(x) == [j \in 1..Len(x.items) |-> PlainFinding(x.items[j])]

\* the categories of a tag in the order of the two extend statements
TagOrder(tag) ==
    IF tag = "MY_SHOP" THEN <<"Strengths", "Weaknesses">> ELSE <<"Opportunities", "Threats">>

\* the statements after the try raise for this batch result
HandlerRaises(v, tag) == \E k \in 1..2 : ExtendRaises(v, TagOrder(tag)[k])

\* the extend statements that run before one raises (all of them if none does)
ExtendedBefore(v, tag) ==
    {TagOrder(tag)[k] : k \in {n \in 1..2 : \A j \in 1..n : ~ExtendRaises(v, TagOrder(tag)[j])}}

\* the batch returned a value the statements after the try can read
BatchExtends(tag) ==
    /\ pc = TagPc(tag) /\ bpc = "returned" /\ ret.status = "ok"
    /\ ~HandlerRaises(ret.value, tag)
    /\ all_results' =
          [c \in CategorySet |->
              IF c \in TagCategories(tag)
              THEN all_results[c] \o Extension(CategoryOf(ret.value, c))
              ELSE all_results[c]]
    /\ all_summaries' = Append(all_summaries, DictGet(ret.value, "Executive_Summary", Str(<<>>)).s)
    /\ ok_log' = Append(ok_log, [tag |-> tag, num |-> BatchNum, result |-> ret.value])
    /\ i' = i + batch_size
    /\ ForgetCall
    /\ UNCHANGED <<runVars, planVars, st_errors, pc, outcome, sent>>

\* the batch returned a value on which get or extend raises: the statement is
\* outside the try, so the exception leaves analyze_swot_with_gemini
BatchBreaks(tag) ==
    /\ pc = TagPc(tag) /\ bpc = "returned" /\ ret.status = "ok"
    /\ HandlerRaises(ret.value, tag)
    /\ all_results' =
          [c \in CategorySet |->
              IF c \in ExtendedBefore(ret.value, tag)
              THEN all_results[c] \o Extension(CategoryOf(ret.value, c))
              ELSE all_results[c]]
    /\ outcome' = [status |-> "raised",
                   error |-> [kind |-> IF IsDict(ret.value) /\ IsDict(SwotOf(ret.value))
                                       THEN "TypeError" ELSE "AttributeError",
                              detail |-> "batch_result", names |-> {}]]
    /\ pc' = "raised"
    /\ ForgetCall
    /\ UNCHANGED <<runVars, planVars, all_summaries, st_errors, ok_log, i, sent>>

Member(name, v) == [k |-> KeyChars(name), v |-> v]

\* Documents the model can answer with: values that are no object, objects
\* whose SWOT_Analysis is no object, a category that is a number, and objects
\* the loops can read (empty, or with one finding).
ShapeDocs ==
    {Arr(<<>>), Str(<<"a">>), Num, Obj(<<>>),
     Obj(<<Member("SWOT_Analysis", Arr(<<>>))>>),
     Obj(<<Member("SWOT_Analysis", Str(<<"a">>))>>),
     Obj(<<Member("SWOT_Analysis", Obj(<<Member("Strengths", Arr(<<>>)), Member("Weaknesses", Num)>>))>>),
     Obj(<<Member("SWOT_Analysis",
                  Obj(<<Member("Strengths", Arr(<<Obj(<<Member("topic", Str(<<"a">>))>>)>>)),
                        Member("Threats", Arr(<<Obj(<<Member("topic", Str(<<"b">>))>>)>>))>>))>>)}

\* the documents as they are, and one text from which nothing is recovered
ShapeResponses ==
    {TextResponse(Dumps(v), v, "valid") : v \in ShapeDocs}
    \cup {TextResponse(<<"{">>, Obj(<<>>), "truncated")}

NextShapes ==
    \/ Begin
    \/ \E resp \in ShapeResponses : GenerateReturnsText(resp)
    \/ SingleReturn
    \/ SingleRaise
    \/ \E tag \in Tags : LoopNext(tag)
    \/ \E tag \in Tags : LoopEnd(tag)
    \/ \E tag \in Tags : BatchExtends(tag)
    \/ \E tag \in Tags : BatchBreaks(tag)
    \/ \E tag \in Tags : BatchSkipped(tag)
    \/ Merge

SpecShapes == Init /\ [][NextShapes]_vars

\* ------------------------------------------------ the merge step alone
\* Topics and severity fields a finding returned by the model may carry.
TopicTexts == {<<" ">>, <<"a">>, <<"A", " ">>, <<"b">>}
ImpactValues == {"", "Low", "High", "Bad"}
RiskValues == {"Low", "Medium", "High"}

\* the findings the model may return with description d
FindingsAt(d) ==
    {[description |-> d]}
    \cup {[description |-> d, topic |-> t] : t \in TopicTexts}
    \cup {[description |-> d, impact |-> v] : v \in ImpactValues}
    \cup {[description |-> d, topic |-> t, impact |-> v] : t \in TopicTexts, v \in ImpactValues}
    \cup {[description |-> d, risk_level |-> v] : v \in RiskValues}
    \cup {[description |-> d, topic |-> t, risk_level |-> v] : t \in TopicTexts, v \in RiskValues}
    \cup {[description |-> d, impact |-> "", risk_level |-> "High"]}
    \cup {[description |-> d, topic |-> t, impact |-> "", risk_level |-> "High"] : t \in TopicTexts}

\* the tag whose batches feed a category
CategoryTag(c) == IF c \in {"Strengths", "Weaknesses"} THEN "MY_SHOP" ELSE "COMPETITOR"

\* lists of up to MaxItems findings, the k-th one returned for batch k of tag
ItemLists(tag) ==
    UNION {{f \in [1..n -> FindingsAt(<<tag, 1>>) \cup UNION {FindingsAt(<<tag, k>>) : k \in 1..n}] :
              \A k \in 1..n : f[k].description = <<tag, k>>} : n \in 0..MaxItems}

\* The state in which the merge step starts after a run of one-record
\* batches of one tag, batch k having returned the k-th finding of a category.
MergeStart(cat, items) ==
        LET tag == CategoryTag(cat)
            n == IF Len(items) < 2 THEN 2 ELSE Len(items)
            data == [k \in 1..n |-> [source |-> tag, review |-> k]]
            res(k) == [SWOT_Analysis |->
                          [c \in CategorySet |->
                              IF c = cat /\ k <= Len(items) THEN <<items[k]>> ELSE <<>>],
                       Executive_Summary |-> <<>>]
        IN  /\ reviews = data
            /\ batch_size = 1
            /\ pc = "merge"
            /\ my_shop_data = IF tag = "MY_SHOP" THEN data ELSE <<>>
            /\ competitor_data = IF tag = "COMPETITOR" THEN data ELSE <<>>
            /\ i = 0
            /\ all_results = [c \in CategorySet |-> IF c = cat THEN items ELSE <<>>]
            /\ all_summaries = [k \in 1..n |-> <<>>]
            /\ st_errors = <<>>
            /\ outcome = NoValue
            /\ batch = <<>>
            /\ bpc = "idle"
            /\ attempt = 0
            /\ last_error = "none"
            /\ response = NoResponse
            /\ ret = NoValue
            /\ calls = <<>>
            /\ waits = <<>>
            /\ sent = [k \in 1..n |-> [tag |-> tag, num |-> k, batch |-> <<data[k]>>]]
            /\ ok_log = [k \in 1..n |-> [tag |-> tag, num |-> k, result |-> res(k)]]
            /\ caller = "joining"

InitMerge ==
    \E cat \in CategorySet :
      \E items \in ItemLists(CategoryTag(cat)) : MergeStart(cat, items)

NextMerge == Merge

SpecMerge == InitMerge /\ [][NextMerge]_vars

\* ------------------------------------ the merge step on longer categories
\* Findings with a topic and, at most, an impact: fewer shapes than above, so
\* that a category can hold one finding more.
OrderFindingsAt(d) ==
    {[description |-> d]}
    \cup {[description |-> d, topic |-> t] : t \in TopicTexts}
    \cup {[description |-> d, topic |-> t, impact |-> v] : t \in TopicTexts, v \in {"Low", "High"}}

\* lists of up to MaxItems + 1 such findings, the k-th one returned for batch k
OrderItemLists(tag) ==
    UNION {{f \in [1..n -> UNION {OrderFindingsAt(<<tag, k>>) : k \in 1..n}] :
              \A k \in 1..n : f[k].description = <<tag, k>>} : n \in 0..(MaxItems + 1)}

InitMergeOrder ==
    \E cat \in CategorySet :
      \E items \in OrderItemLists(CategoryTag(cat)) : MergeStart(cat, items)

SpecMergeOrder == InitMergeOrder /\ [][NextMerge]_vars

\* ------------------------------- the merge step on any validated results
\* validate_swot_result looks at the four lists, not into the findings: a
\* finding of a validated result may carry "topic": null.
NullFindingsAt(d) ==
    {[description |-> d, topic |-> None]}
    \cup {[description |-> d, topic |-> None, impact |-> v] : v \in ImpactValues}

\* lists of up to MaxItems findings of a validated result
AnyItemLists(tag) ==
    UNION {{f \in [1..n -> UNION {FindingsAt(<<tag, k>>) \cup NullFindingsAt(<<tag, k>>) : k \in 1..n}] :
              \A k \in 1..n : f[k].description = <<tag, k>>} : n \in 0..MaxItems}

InitMergeAny ==
    \E cat \in CategorySet :
      \E items \in AnyItemLists(CategoryTag(cat)) : MergeStart(cat, items)

NextMergeAny ==
    \/ Merge
    \/ MergeRaises

SpecMergeAny == InitMergeAny /\ [][NextMergeAny]_vars

\* ------------------------------------------------------------ properties
Range(seq) == {seq[k] : k \in 1..Len(seq)}

RECURSIVE ConcatAll(_)
ConcatAll(lists) == IF lists = <<>> THEN <<>> ELSE Head(lists) \o ConcatAll(Tail(lists))

\* the run took the multi-batch path
MultiPath == pc \in {"my_shop", "competitor", "merge", "done"} /\ Len(reviews) > batch_size

\* what the merged batches returned for a category, in batch order
MergedInput(c) ==
    ConcatAll([k \in 1..Len(ok_log) |->
                  IF c \in TagCategories(ok_log[k].tag)
                  THEN Get(Get(ok_log[k].result, "SWOT_Analysis", <<>>), c, <<>>)
                  ELSE <<>>])

\* number of batches of batch_size records that n records make
Ceil(n) == (n + batch_size - 1) \div batch_size

\* positions in sent at which a record was handed to the model
Occurrences(r) ==
    {<<b, j>> \in (1..Len(sent)) \X (1..MaxReviews + 1) :
        j <= Len(sent[b].batch) /\ sent[b].batch[j] = r}

\* C1: once every batch has been sent, every input record, whatever its
\* source tag, was handed to the model in exactly one batch, and the batches
\* of one tag, put end to end, are that tag's records in their input order.
C1_BatchesPartitionInput ==
    pc \in {"merge", "done"} =>
        /\ \A k \in 1..Len(reviews) : Cardinality(Occurrences(reviews[k])) = 1
        /\ \A tag \in Sources :
              FilterSource(ConcatAll([b \in 1..Len(sent) |-> sent[b].batch]), tag)
                  = FilterSource(reviews, tag)

\* errors after which another attempt can succeed
TransientErrors == {"500", "429", "timeout"}

\* errors that no further attempt can cure
FatalErrors == {"401", "402"}

\* C2: a batch whose every model call raised a transient error has made
\* exactly 3 calls when it ends, all with the same prompt, and ends by
\* raising an error that carries the last underlying error; no batch ever
\* makes a 4th call.
C2_TransientRetriedThreeTimes ==
    /\ Len(calls) <= 3
    /\ \A j, k \in 1..Len(calls) : calls[j].prompt = calls[k].prompt
    /\ (bpc = "returned" /\ \A k \in 1..Len(calls) : calls[k].outcome \in TransientErrors)
          => /\ Len(calls) = 3
             /\ ret.status = "raised"
             /\ ret.error.detail = calls[3].outcome

C2_Witness ==
    /\ bpc = "returned"
    /\ Len(calls) = 3
    /\ \A k \in 1..3 : calls[k].outcome = "500"
    /\ ret.status = "raised"
    /\ Len(batch) = 2

\* C3: a call that raises a fatal error (401, 402) is the only call of its
\* batch and is followed by no backoff wait.
C3_FatalCalledOnce ==
    \A k \in 1..Len(calls) :
        calls[k].outcome \in FatalErrors => (Len(calls) = 1 /\ waits = <<>>)

\* a batch failed with an auth or quota error
FatalFailureSeen ==
    \/ \E k \in 1..Len(st_errors) : st_errors[k].kind \in {"auth", "quota"}
    \/ (outcome.status = "raised" /\ outcome.error.kind \in {"auth", "quota"})

\* C4: once a batch has failed with an auth or quota error the run is
\* aborted: it has raised, and no further batch is sent.
C4_FatalAbortsRun == FatalFailureSeen => pc = "raised"

\* batches the multi-batch plan contains
PlannedBatches == Ceil(Len(FilterSource(reviews, "MY_SHOP"))) + Ceil(Len(FilterSource(reviews, "COMPETITOR")))

\* the state part of C5
C5_SkippedContributeNothing ==
    MultiPath =>
        /\ \A c \in CategorySet :
              all_results[c] = IF pc = "done" THEN DedupCategory(MergedInput(c)) ELSE MergedInput(c)
        /\ all_summaries = [k \in 1..Len(ok_log) |-> Get(ok_log[k].result, "Executive_Summary", <<>>)]
        /\ \A e \in Range(st_errors) : \A c \in CategorySet : \A f \in Range(all_results[c]) :
              f.description \notin e.names
        /\ Len(sent) = Len(ok_log) + Len(st_errors) + (IF bpc = "idle" THEN 0 ELSE 1)
        /\ pc \in {"merge", "done"} => Len(sent) = PlannedBatches
        /\ pc = "done" =>
              /\ outcome.status = "returned"
              /\ outcome.value.SWOT_Analysis = all_results
              /\ outcome.value.Executive_Summary = AggregateSummary(all_summaries)

\* the step part of C5
C5_SkipStep ==
    (pc \in {"my_shop", "competitor"} /\ bpc = "returned" /\ ret.status = "raised") =>
        /\ pc' = pc
        /\ bpc' = "idle"
        /\ i' = i + batch_size
        /\ all_results' = all_results
        /\ all_summaries' = all_summaries
        /\ outcome' = outcome

\* C5: in the multi-batch path a batch that raised (retries exhausted or
\* response not recoverable) is skipped: the step that handles it leaves the
\* accumulated findings and summaries unchanged and moves on to the next
\* batch; the report holds exactly the merged results of the batches that
\* succeeded, and every planned batch is sent.
C5_ResilientSkip == []C5_SkippedContributeNothing /\ [][C5_SkipStep]_vars

C5_Witness ==
    /\ pc = "done"
    /\ Len(st_errors) = 2
    /\ st_errors[1].names = {<<"MY_SHOP", 1>>}
    /\ st_errors[1].detail = "500"
    /\ st_errors[2].detail = "parse"
    /\ \E k \in 1..Len(ok_log) : ok_log[k].tag = "COMPETITOR"
    /\ outcome.value.SWOT_Analysis["Threats"] # <<>>

\* C6: when the run is aborted by the failure of a batch, the error raised
\* names the failed batch (its source tag and ordinal index).
C6_AbortNamesBatch ==
    pc = "raised" => outcome.error.names # {}

\* positions of a category's merged input whose normalized topic is key
WithKey(inp, key) == {k \in 1..Len(inp) : NormTopic(inp[k]) = key}

\* C7: when exactly two findings of a category share a non-empty normalized
\* topic, one with impact Low and one with impact High, the merged category
\* holds exactly one finding with that topic and it is the High one,
\* whichever of the two came first.
C7_HighBeatsLow ==
    pc = "done" =>
        \A c \in CategorySet :
            LET inp == MergedInput(c)
                out == outcome.value.SWOT_Analysis[c]
            IN  \A lo, hi \in 1..Len(inp) :
                    ( /\ NormTopic(inp[lo]) # <<>>
                      /\ WithKey(inp, NormTopic(inp[lo])) = {lo, hi}
                      /\ Get(inp[lo], "impact", "absent") = "Low"
                      /\ Get(inp[hi], "impact", "absent") = "High" )
                    => /\ Cardinality(WithKey(out, NormTopic(inp[lo]))) = 1
                       /\ \A k \in WithKey(out, NormTopic(inp[lo])) : out[k] = inp[hi]

C7_Witness ==
    /\ pc = "done"
    /\ LET inp == MergedInput("Strengths")
       IN  /\ Len(inp) = 2
           /\ Get(inp[1], "topic", <<>>) = <<"a">> /\ Get(inp[1], "impact", "absent") = "Low"
           /\ Get(inp[2], "topic", <<>>) = <<"A", " ">> /\ Get(inp[2], "impact", "absent") = "High"
           /\ outcome.value.SWOT_Analysis["Strengths"] = <<inp[2]>>

\* rank of a Threat's risk_level: High > Medium > Low, anything else Low
RiskRank(item) == impact_order(Get(item, "risk_level", "Low"))

\* C8: of two Threats with the same non-empty normalized topic and no impact
\* field, the one with the higher risk_level is the one the merge keeps.
C8_ThreatsByRiskLevel ==
    pc = "done" =>
        LET inp == MergedInput("Threats")
            out == outcome.value.SWOT_Analysis["Threats"]
        IN  \A lo, hi \in 1..Len(inp) :
                ( /\ NormTopic(inp[lo]) # <<>>
                  /\ WithKey(inp, NormTopic(inp[lo])) = {lo, hi}
                  /\ "impact" \notin DOMAIN inp[lo]
                  /\ "impact" \notin DOMAIN inp[hi]
                  /\ RiskRank(inp[hi]) > RiskRank(inp[lo]) )
                => \A k \in WithKey(out, NormTopic(inp[lo])) : out[k] = inp[hi]

\* rank of the severity the merge reads from a finding
SeverityRank(item) == impact_order(ItemImpact(item))

\* C9: when exactly two findings of a category share a non-empty normalized
\* topic and have equal severity rank (unrecognized and missing severities
\* ranking as Low), the merged category keeps the earlier one and not the
\* later one.
C9_TieKeepsFirst ==
    pc = "done" =>
        \A c \in CategorySet :
            LET inp == MergedInput(c)
                out == outcome.value.SWOT_Analysis[c]
            IN  \A first, later \in 1..Len(inp) :
                    ( /\ first < later
                      /\ NormTopic(inp[first]) # <<>>
                      /\ WithKey(inp, NormTopic(inp[first])) = {first, later}
                      /\ SeverityRank(inp[first]) = SeverityRank(inp[later]) )
                    => /\ Cardinality(WithKey(out, NormTopic(inp[first]))) = 1
                       /\ inp[first] \in Range(out)
                       /\ inp[later] \notin Range(out)

C9_Witness ==
    /\ pc = "done"
    /\ LET inp == MergedInput("Opportunities")
       IN  /\ Len(inp) = 2
           /\ Get(inp[1], "topic", <<>>) = <<"b">> /\ Get(inp[1], "impact", "absent") = "Bad"
           /\ Get(inp[2], "topic", <<>>) = <<"b">> /\ DOMAIN inp[2] = {"topic", "description"}
           /\ outcome.value.SWOT_Analysis["Opportunities"] = <<inp[1]>>

\* C10: every finding with an empty, whitespace-only or missing topic that
\* a merged batch returned for one of its categories is in the merged
\* category list, once for each time it was returned.
C10_EmptyTopicsKept ==
    (pc = "done" /\ MultiPath) =>
        \A c \in CategorySet :
            LET inp == MergedInput(c)
                out == outcome.value.SWOT_Analysis[c]
            IN  \A k \in 1..Len(inp) :
                    NormTopic(inp[k]) = <<>> =>
                        Cardinality({j \in 1..Len(out) : out[j] = inp[k]})
                            = Cardinality({j \in 1..Len(inp) : inp[j] = inp[k]})

\* C11: every report the multi-batch merge returns has exactly the four
\* category keys, each holding a list, whatever batches succeeded or failed.
C11_FourCategoriesPresent ==
    (pc = "done" /\ MultiPath) =>
        /\ outcome.status = "returned"
        /\ DOMAIN outcome.value.SWOT_Analysis = CategorySet
        /\ \A c \in CategorySet : Len(outcome.value.SWOT_Analysis[c]) >= 0

C11_Witness ==
    /\ pc = "done" /\ MultiPath
    /\ ok_log = <<>>
    /\ Len(st_errors) >= 2
    /\ \A c \in CategorySet : outcome.value.SWOT_Analysis[c] = <<>>

\* C12: no finding of the report comes from a batch whose result fails
\* validation (SWOT_Analysis or one of the four category keys missing), and
\* the summary of such a batch is not among the aggregated summaries.
C12_InvalidResultNotMerged ==
    MultiPath =>
        \A k \in 1..Len(ok_log) :
            ~validate_swot_result(ok_log[k].result) =>
                /\ \A c \in CategorySet : \A f \in Range(all_results[c]) :
                      f.description # <<ok_log[k].tag, ok_log[k].num>>
                /\ k \notin DOMAIN all_summaries

\* C13: whatever path was taken, a returned value has SWOT_Analysis with
\* all four category keys and has Executive_Summary.
C13_ReturnedValueWellFormed ==
    outcome.status = "returned" =>
        /\ validate_swot_result(outcome.value)
        /\ "Executive_Summary" \in DOMAIN outcome.value

\* the call has returned the outcome of recovering a text of this form
Recovered(form) == bpc = "returned" /\ response.kind = "text" /\ response.form = form

\* C14: a response text that is a valid JSON document is returned as the
\* structure the document denotes, by the direct parse; sanitising changes
\* nothing in it, string values with escape sequences included.
C14_ValidJsonUnchanged ==
    Recovered("valid") =>
        /\ ret.status = "ok"
        /\ ret.value = response.denotes
        /\ ret.step = "direct"

\* C15: a JSON object cut after a complete value, with only closing braces
\* and brackets missing, is recovered as the object of the uncut text,
\* whatever the nesting of the unclosed arrays and objects.
C15_TruncatedObjectRecovered ==
    (Recovered("truncated") /\ response.denotes.t = "obj") =>
        /\ ret.status = "ok"
        /\ ret.value = response.denotes

\* the non-empty executive summaries of the merged batches, in batch order
NonEmptySummaries == SelectSeq(all_summaries, LAMBDA t : t # <<>>)

\* C16: when exactly one merged batch produced a non-empty summary, the
\* report's Executive_Summary is that summary, character for character.
C16_SingleSummaryVerbatim ==
    (pc = "done" /\ MultiPath /\ Len(NonEmptySummaries) = 1) =>
        outcome.value.Executive_Summary = NonEmptySummaries[1]

\* C17: when several merged batches produced non-empty summaries, the
\* report's Executive_Summary is built from the first five non-empty ones
\* only, joined and cut to 500 characters.
C17_FirstFiveNonEmpty ==
    (pc = "done" /\ MultiPath /\ Len(NonEmptySummaries) > 1) =>
        outcome.value.Executive_Summary = AggregateSummary(NonEmptySummaries)

Chunk(tag, num) ==
    LET data == FilterSource(reviews, tag)
    IN  SubSeq(data, (num - 1) * batch_size + 1, Min(num * batch_size, Len(data)))

\* C19: with at most batch_size reviews exactly one batch holding all the
\* reviews is sent and nothing is split by tag; with more, the reviews are
\* split by tag and every batch sent is a chunk of one tag's records.
C19_SingleOrPerTag ==
    /\ (pc # "start" /\ Len(reviews) <= batch_size) =>
          /\ sent = <<[tag |-> "ALL", num |-> 1, batch |-> reviews]>>
          /\ my_shop_data = <<>> /\ competitor_data = <<>>
    /\ (pc # "start" /\ Len(reviews) > batch_size) =>
          /\ my_shop_data = FilterSource(reviews, "MY_SHOP")
          /\ competitor_data = FilterSource(reviews, "COMPETITOR")
          /\ \A b \in 1..Len(sent) :
                sent[b].tag \in Tags /\ sent[b].batch = Chunk(sent[b].tag, sent[b].num)

C19_Witness ==
    /\ pc = "single"
    /\ Len(reviews) = batch_size
    /\ Len(sent) = 1
    /\ \E j, k \in 1..Len(sent[1].batch) :
          sent[1].batch[j].source = "MY_SHOP" /\ sent[1].batch[k].source = "COMPETITOR"

\* batches of a tag sent so far
BatchesOf(tag) == {b \in 1..Len(sent) : sent[b].tag = tag}

\* C20: in the multi-batch path every batch sent is non-empty, holds records
\* of one source tag, has at most batch_size records, only the last batch of
\* a tag is shorter, and a tag with n records gets ceil(n / batch_size) batches.
C20_BatchShape ==
    Len(reviews) > batch_size =>
        /\ \A b \in 1..Len(sent) :
              /\ sent[b].batch # <<>>
              /\ \A j \in 1..Len(sent[b].batch) : sent[b].batch[j].source = sent[b].tag
              /\ Len(sent[b].batch) <= batch_size
              /\ Len(sent[b].batch) < batch_size =>
                    sent[b].num = Ceil(Len(FilterSource(reviews, sent[b].tag)))
        /\ pc \in {"merge", "done"} =>
              \A tag \in Tags :
                  /\ Cardinality(BatchesOf(tag)) = Ceil(Len(FilterSource(reviews, tag)))
                  /\ {sent[b].num : b \in BatchesOf(tag)} = 1..Ceil(Len(FilterSource(reviews, tag)))

C20_Witness ==
    /\ pc = "merge"
    /\ batch_size = 2
    /\ Len(sent) = 2
    /\ sent[1].tag = "MY_SHOP" /\ Len(sent[1].batch) = 2
    /\ sent[2].tag = "MY_SHOP" /\ Len(sent[2].batch) = 1

\* the call has returned the outcome of recovering a response text
RecoveredText == bpc = "returned" /\ response.kind = "text"

\* C22: recovery stops at the first strategy that parses: once a strategy of
\* the ladder has produced a parsed value (here the closing of Fix 2), that
\* value is returned; no later step replaces it or raises instead.
C22_FirstSuccessReturned ==
    (RecoveredText /\ ret.fix2.ok) =>
        /\ ret.status = "ok"
        /\ ret.value = ret.fix2.v

\* C27: a batch whose model call returned and whose text could not be
\* recovered is reported as a generic failure, never as a quota, auth or
\* rate-limit failure, whatever the text holds.
C27_ParseFailureIsGeneric ==
    (RecoveredText /\ ret.status = "raised") => ret.error.kind = "generic"

\* C21: once the caller's join has timed out, the caller keeps its timeout
\* error (it accepts no report) and the analysis thread issues no further
\* model call.
C21_NoCallAfterCallerTimeout ==
    [][caller = "TimeoutError" =>
          /\ caller' = "TimeoutError"
          /\ Len(calls') <= Len(calls)]_vars

\* C25: the model call of a retry (an attempt after the first) is made only
\* while the caller's deadline has not elapsed.
C25_RetryChecksCallerDeadline ==
    [][(attempt >= 1 /\ Len(calls') = Len(calls) + 1) => caller # "TimeoutError"]_vars

\* C26: an attempt whose call is pending when the timeout has passed is
\* eventually ended.
C26_OverdueAttemptEnds == (bpc = "overdue") ~> (bpc # "overdue")

\* batches that have ended: merged, or skipped with a message
Finished == Len(ok_log) + Len(st_errors)

\* C23: batches run one at a time (every batch sent before the running one
\* has been merged or skipped, and every model call of the running batch
\* carries that batch), no MY_SHOP batch is sent after a COMPETITOR batch,
\* and once a batch has been sent the run is past planning and the plan is
\* what the split of the reviews gave.
C23_OneBatchAtATime ==
    /\ MultiPath => Len(sent) = Finished + (IF bpc = "idle" THEN 0 ELSE 1)
    /\ Len(sent) > 1 => Len(reviews) > batch_size
    /\ calls # <<>> =>
          /\ bpc # "idle"
          /\ \A k \in 1..Len(calls) : calls[k].prompt = FormatPrompt(Current.batch)
    /\ \A j, k \in 1..Len(sent) :
          (j < k /\ sent[j].tag = "COMPETITOR") => sent[k].tag # "MY_SHOP"
    /\ sent # <<>> =>
          /\ pc # "start"
          /\ Len(reviews) > batch_size =>
                /\ my_shop_data = FilterSource(reviews, "MY_SHOP")
                /\ competitor_data = FilterSource(reviews, "COMPETITOR")

C23_Witness ==
    /\ pc = "competitor" /\ bpc = "invoke"
    /\ Len(sent) = 3
    /\ sent[1].tag = "MY_SHOP" /\ sent[2].tag = "MY_SHOP" /\ sent[3].tag = "COMPETITOR"
    /\ Len(st_errors) = 1 /\ Len(ok_log) = 1
    /\ Len(calls) = 2

\* position in a category's merged input of the first finding with a topic
FirstAt(inp, key) == CHOOSE k \in WithKey(inp, key) : \A j \in WithKey(inp, key) : k <= j

\* C29: in every category of the merged report no two findings have the
\* same normalized topic, every finding's topic is one the merged batches
\* returned, and the findings stand in the order in which their topics first
\* occurred in batch order (so the finding that survives a group of
\* duplicates stands where the group's first member stood).
C29_UniqueInFirstSeenOrder ==
    pc = "done" =>
        \A c \in CategorySet :
            LET inp == MergedInput(c)
                out == outcome.value.SWOT_Analysis[c]
            IN  \A j, k \in 1..Len(out) :
                    /\ WithKey(inp, NormTopic(out[j])) # {}
                    /\ j < k =>
                          /\ NormTopic(out[j]) # NormTopic(out[k])
                          /\ WithKey(inp, NormTopic(out[k])) # {}
                          /\ FirstAt(inp, NormTopic(out[j])) < FirstAt(inp, NormTopic(out[k]))

C29_Witness ==
    /\ pc = "done"
    /\ LET inp == MergedInput("Strengths")
       IN  /\ Len(inp) = 3
           /\ Get(inp[1], "topic", <<>>) = <<"a">> /\ Get(inp[1], "impact", "absent") = "Low"
           /\ Get(inp[2], "topic", <<>>) = <<"b">>
           /\ Get(inp[3], "topic", <<>>) = <<"A", " ">> /\ Get(inp[3], "impact", "absent") = "High"
           /\ outcome.value.SWOT_Analysis["Strengths"] = <<inp[3], inp[2]>>

\* C24: from batch results that all pass validate_swot_result, the merge
\* step ends in Done with a report: it does not raise.
C24_MergeReachesDone ==
    ((\A k \in 1..Len(ok_log) : validate_swot_result(ok_log[k].result)) /\ pc # "merge")
        => (pc = "done" /\ outcome.status = "returned")

\* C28: in the multi-batch path the run is never aborted, whatever JSON
\* value a batch's response parses to.
C28_NoBatchOutcomeAborts == Len(reviews) > batch_size => pc # "raised"

\* the run has ended: a report was returned or an error raised
Terminated == pc \in {"done", "raised"}

\* batches of a tag's records that the loop has not reached at offset k
BatchesLeft(data, k) == IF k >= Len(data) THEN 0 ELSE Ceil(Len(data) - k)

\* batches not yet handed to _analyze_single_batch
Unstarted ==
    LET running == IF bpc = "idle" THEN 0 ELSE 1
    IN  CASE pc = "start" ->
                 IF Len(reviews) <= batch_size THEN 1
                 ELSE Ceil(Len(FilterSource(reviews, "MY_SHOP")))
                      + Ceil(Len(FilterSource(reviews, "COMPETITOR")))
          [] pc = "my_shop" ->
                 (BatchesLeft(my_shop_data, i) - running) + Ceil(Len(competitor_data))
          [] pc = "competitor" -> BatchesLeft(competitor_data, i) - running
          [] OTHER -> 0

\* steps the running batch can still take: one per attempt left, one to hand
\* its outcome over
CallBudget ==
    CASE bpc = "invoke" -> (max_retries - attempt) + 1
      [] bpc = "returned" -> 1
      [] OTHER -> 0

\* stages of analyze_swot_with_gemini still ahead
StagesLeft ==
    CASE pc = "start" -> 4
      [] pc = "my_shop" -> 3
      [] pc = "competitor" -> 2
      [] pc \in {"merge", "single"} -> 1
      [] OTHER -> 0

\* a bound on the number of steps the run can still take
Rank == (max_retries + 2) * Unstarted + CallBudget + StagesLeft

\* Until the run has ended it is at a point where its next step is possible:
\* a step of its own, or, while generate_content is being called, the step
\* that follows the call's return and the step that follows its exception.
CanStep ==
    /\ Terminated \/ pc = "start" \/ bpc = "invoke" \/ bpc = "returned"
          \/ (bpc = "idle" /\ pc \in {"my_shop", "competitor", "merge"})
    /\ pc = "start" => ENABLED Begin
    /\ bpc = "invoke" =>
          /\ ENABLED (\E resp \in CallResponses : GenerateReturns(resp))
          /\ ENABLED (\E e \in CallErrors : GenerateRaises(e))
    /\ bpc = "returned" =>
          ENABLED (SingleReturn \/ SingleRaise
                   \/ \E tag \in Tags : BatchMerged(tag) \/ BatchSkipped(tag))
    /\ (bpc = "idle" /\ pc \in {"my_shop", "competitor"}) =>
          ENABLED (\E tag \in Tags : LoopNext(tag) \/ LoopEnd(tag))
    /\ pc = "merge" => ENABLED Merge

\* the state part of C30
C30_CallsBounded ==
    /\ Rank >= 0
    /\ CanStep
    /\ Len(calls) <= max_retries
    /\ bpc = "invoke" => Len(calls) = attempt
    /\ bpc = "returned" =>
          /\ Len(calls) = attempt + 1
          /\ \A k \in 1..(Len(calls) - 1) : calls[k].outcome # "returned"
    /\ ( /\ Len(reviews) > batch_size
         /\ FilterSource(reviews, "MY_SHOP") = <<>>
         /\ FilterSource(reviews, "COMPETITOR") = <<>> )
          => /\ sent = <<>> /\ calls = <<>>
             /\ bpc = "idle"

\* C30: every step brings the run closer to its end and, until it has ended,
\* a step is possible whenever the model answers, so the run terminates; a
\* batch makes at most 3 model calls, a batch whose call returns on attempt k
\* has made exactly k calls, and a multi-batch run without MY_SHOP and
\* COMPETITOR records sends no batch and makes no call.
C30_TerminatesWithinCallBudget == []C30_CallsBounded /\ [][Rank' < Rank]_vars

C30_Witness ==
    /\ pc = "competitor" /\ bpc = "returned"
    /\ ret.status = "ok"
    /\ attempt = 1
    /\ Len(calls) = 2
    /\ calls[1].outcome = "500" /\ calls[2].outcome = "returned"

====
